---- MODULE Spec2Model ----
(***************************************************************************)
(* Admission-and-lifecycle control core of the nutrition-health backend.   *)
(*                                                                         *)
(* The model follows src/main.go: main() wires the database, the Redis     *)
(* client and the Echo middleware chain, starts the HTTP server in a       *)
(* goroutine, blocks on the quit channel and then runs the shutdown        *)
(* sequence (services.Cleanup, then e.Shutdown under a 10 s context).      *)
(*                                                                         *)
(* The packages internal/middleware, internal/handlers, internal/services  *)
(* and internal/redis are not part of the available sources; the parts of  *)
(* them the properties depend on (the distributed rate limiter, the        *)
(* correlation middleware, the readiness probe, the cleanup hooks) are     *)
(* modelled from the design specification and are marked "spec" below.     *)
(* Library behaviour (echo / net/http / os/signal) follows its documented  *)
(* semantics: middleware run in registration order, signal.Notify does a   *)
(* non-blocking send, Server.Shutdown closes the listeners, waits for the  *)
(* connections to become idle and returns the context's error when the     *)
(* context expires first, log.Fatalf exits the process.                    *)
(***************************************************************************)
EXTENDS Integers, Sequences, FiniteSets, TLC

\* ------------------------------------------------------------------ bounds

\* Requests that ever arrive.
MaxReqs == 2

\* Requests that can be in flight at the same time.
Slots == {1, 2}
\* Client identities (rate-limit partition keys).
Identities == {"X", "Y"}

\* Rate windows, numbered by their start: the first one and the one after it.
Windows == {0, 1}
Keys == Identities \X Windows

\* --------------------------------------------------------------- constants

\* quit := make(chan os.Signal, 1)
QuitCapacity == 1

\* cfg.Security.RateLimitReqs, the configured quota L.
RateLimitReqs == 1

\* ------------------------------------------------------------------- state

VARIABLES
    mainPc,       \* position of main(): see MainPcs
    quit,         \* number of signals buffered in the quit channel
    ctxDone,      \* the 10 s shutdown context has expired
    listener,     \* HTTP listener: "none", "open", "closed"
    shutdownErr,  \* what e.Shutdown returned: "none" (not returned), "nil", ...
    dbOpen,       \* database handle is open
    redisClient,  \* "nil", "open", "closed"
    storeUp,      \* the shared counter store is reachable over the network
    shutdownFlag, \* the process-wide Shutdown State flag the probes read
    middlewares,  \* e.Use registrations, in order
    inflight,     \* slot -> request being served (NoReq when free)
    arrived,      \* requests accepted so far
    now,          \* current rate window
    counts,       \* store: key -> counter value (0: key absent)
    tally,        \* history: admission outcomes per key
    lateAdmits,   \* history: admissions that followed a rejection in the key
    cleanupRuns,  \* history: calls of services.Cleanup
    cleanupErr,   \* services.Cleanup returned an error
    phaseLog      \* history: Shutdown States visited, in order

vars == <<mainPc, quit, ctxDone, listener, shutdownErr, dbOpen,
          redisClient, storeUp, shutdownFlag, middlewares, inflight, arrived,
          now, counts, tally, lateAdmits, cleanupRuns, cleanupErr, phaseLog>>

mainVars == <<mainPc, quit, ctxDone, listener, shutdownErr, dbOpen,
              redisClient, middlewares, cleanupRuns, cleanupErr, phaseLog>>
reqVars == <<inflight, arrived, counts, tally, lateAdmits>>

MainPcs == {"init", "wait_quit", "cleanup", "shutdown_call", "shutdown_wait",
            "exit_graceful", "exit_forced", "exit_server_failed"}

ProcessAlive == mainPc \notin {"exit_graceful", "exit_forced", "exit_server_failed"}

\* The Shutdown State the position of main() stands for.  A process that
\* ended through log.Fatalf never completed the sequence: "killed".
ShutdownState(pc) ==
    CASE pc \in {"init", "wait_quit"} -> "running"
      [] pc \in {"cleanup", "shutdown_call", "shutdown_wait"} -> "draining"
      [] pc = "exit_graceful" -> "stopped"
      [] OTHER -> "killed"

LogPhase(log, pc) ==
    IF log[Len(log)] = ShutdownState(pc) THEN log ELSE Append(log, ShutdownState(pc))

\* ---------------------------------------------------------------- startup

\* redis.Initialize: nil when Redis is unavailable.
RedisInitialize(up) == IF up THEN "open" ELSE "nil"

CoreMiddlewareSwapped ==
    <<"Recover", "StructuredLogger", "ErrorLogger", "AuditLogger", "CorrelationID">>

CoreMiddleware ==
    <<"Recover", "CorrelationID", "StructuredLogger", "ErrorLogger", "AuditLogger">>

CustomMiddleware == <<"Security", "CORS">>

UseRateLimiterAlways(client) == TRUE

\* if redisClient != nil { e.Use(middleware.DistributedRateLimiter(...)) }
UseRateLimiter(client) == client # "nil"

RateLimitConfigLimitOffByOne == RateLimitReqs + 1

\* rateLimitConfig.Limit
RateLimitConfigLimit == RateLimitReqs

RegisteredMiddleware(client) ==
    CoreMiddleware \o CustomMiddleware
        \o (IF UseRateLimiter(client) THEN <<"DistributedRateLimiter">> ELSE <<>>)
        \o <<"Compression">>

NoReq == [id |-> "none", pos |-> 0, token |-> FALSE]

Outcomes == {"counted_admit", "rejected", "failopen", "unlimited"}

Init ==
    /\ mainPc = "init"
    /\ quit = 0
    /\ ctxDone = FALSE
    /\ listener = "none"
    /\ shutdownErr = "none"
    /\ dbOpen = FALSE
    /\ redisClient = "nil"
    /\ storeUp \in BOOLEAN
    /\ shutdownFlag = "running"
    /\ middlewares = <<>>
    /\ inflight = [s \in Slots |-> NoReq]
    /\ arrived = 0
    /\ now = 0
    /\ counts = [k \in Keys |-> 0]
    /\ tally = [k \in Keys |-> [o \in Outcomes \X BOOLEAN |-> 0]]
    /\ lateAdmits = {}
    /\ cleanupRuns = 0
    /\ cleanupErr = FALSE
    /\ phaseLog = <<"running">>

\* main() up to the blocking receive on quit: database, Redis, middleware
\* registration, spawning the server goroutine, signal.Notify.
Startup ==
    /\ mainPc = "init"
    /\ mainPc' = "wait_quit"
    /\ dbOpen' = TRUE
    /\ redisClient' = RedisInitialize(storeUp)
    /\ middlewares' = RegisteredMiddleware(redisClient')
    /\ phaseLog' = LogPhase(phaseLog, mainPc')
    /\ UNCHANGED <<quit, ctxDone, listener, shutdownErr, storeUp,
                   shutdownFlag, now, cleanupRuns, cleanupErr>>
    /\ UNCHANGED reqVars

\* ------------------------------------------------------ server goroutine

\* go func() { e.Start(addr) }: the listener is bound.
ServerStart ==
    /\ mainPc \in {"wait_quit", "cleanup", "shutdown_call"}
    /\ listener = "none"
    /\ listener' = "open"
    /\ UNCHANGED <<mainPc, quit, ctxDone, shutdownErr, dbOpen,
                   redisClient, storeUp, shutdownFlag, middlewares, now,
                   cleanupRuns, cleanupErr, phaseLog>>
    /\ UNCHANGED reqVars

\* e.Start returns an error other than http.ErrServerClosed: log.Fatalf.
ServerFailed ==
    /\ mainPc \in {"wait_quit", "cleanup", "shutdown_call"}
    /\ listener = "none"
    /\ mainPc' = "exit_server_failed"
    /\ phaseLog' = LogPhase(phaseLog, mainPc')
    /\ UNCHANGED <<quit, ctxDone, listener, shutdownErr, dbOpen,
                   redisClient, storeUp, shutdownFlag, middlewares, now,
                   cleanupRuns, cleanupErr>>
    /\ UNCHANGED reqVars

\* ---------------------------------------------------------------- signals

\* signal.Notify(quit, os.Interrupt, syscall.SIGTERM): a non-blocking send,
\* the signal is dropped when the channel's buffer is full.
NotifySend(q) == IF q < QuitCapacity THEN q + 1 ELSE q

Signal ==
    /\ ProcessAlive
    /\ mainPc # "init"
    /\ quit' = NotifySend(quit)
    /\ UNCHANGED <<mainPc, ctxDone, listener, shutdownErr, dbOpen, redisClient,
                   storeUp, shutdownFlag, middlewares, now, cleanupRuns, cleanupErr,
                   phaseLog>>
    /\ UNCHANGED reqVars

\* <-quit returns; the shutdown context (10 s) is created.
ReceiveQuit ==
    /\ mainPc = "wait_quit"
    /\ quit > 0
    /\ quit' = quit - 1
    /\ mainPc' = "cleanup"
    /\ phaseLog' = LogPhase(phaseLog, mainPc')
    /\ UNCHANGED <<ctxDone, listener, shutdownErr, dbOpen, redisClient,
                   storeUp, shutdownFlag, middlewares, now, cleanupRuns, cleanupErr>>
    /\ UNCHANGED reqVars

\* The timer of context.WithTimeout fires.  The context is read by e.Shutdown
\* alone, so an expiry before the call is observed as one at its start.
DeadlineExpire ==
    /\ mainPc = "shutdown_wait"
    /\ ~ctxDone
    /\ ctxDone' = TRUE
    /\ UNCHANGED <<mainPc, quit, listener, shutdownErr, dbOpen,
                   redisClient, storeUp, shutdownFlag, middlewares, now, cleanupRuns,
                   cleanupErr, phaseLog>>
    /\ UNCHANGED reqVars

\* --------------------------------------------------------------- shutdown

\* services.Cleanup (spec): the hooks close the store connection and the
\* database handle; a hook that fails leaves its resource as it was, the
\* remaining hooks still run and the error is returned at the end.
ServicesCleanup(client, db, storeOk) ==
    [client |-> IF client = "open" /\ storeOk THEN "closed" ELSE client,
     db     |-> FALSE,
     err    |-> ~storeOk]

\* if err := services.Cleanup(); err != nil { log.Printf(...) }
Cleanup ==
    /\ mainPc = "cleanup"
    /\ \E storeOk \in BOOLEAN :
          LET r == ServicesCleanup(redisClient, dbOpen, storeOk) IN
          /\ redisClient' = r.client
          /\ dbOpen' = r.db
          /\ cleanupErr' = r.err
    /\ cleanupRuns' = cleanupRuns + 1
    /\ mainPc' = "shutdown_call"
    /\ phaseLog' = LogPhase(phaseLog, mainPc')
    /\ UNCHANGED <<quit, ctxDone, listener, shutdownErr, storeUp,
                   shutdownFlag, middlewares, now>>
    /\ UNCHANGED reqVars

\* e.Shutdown(ctx) is entered: the listener, if bound, is closed and a server
\* not yet started will not start; then the call waits for the connections
\* to become idle.
ShutdownBegin ==
    /\ mainPc = "shutdown_call"
    /\ mainPc' = "shutdown_wait"
    /\ listener' = (IF listener = "open" THEN "closed" ELSE listener)
    /\ phaseLog' = LogPhase(phaseLog, mainPc')
    /\ UNCHANGED <<quit, ctxDone, shutdownErr, dbOpen, redisClient, storeUp,
                   shutdownFlag, middlewares, now, cleanupRuns, cleanupErr>>
    /\ UNCHANGED reqVars

InFlight == {s \in Slots : inflight[s].id # "none"}

ShutdownOutcomePcLoop(err) == IF err = "nil" THEN "wait_quit" ELSE "exit_forced"

\* if err := e.Shutdown(ctx); err != nil { log.Fatalf(...) }; then main returns.
ShutdownOutcomePc(err) == IF err = "nil" THEN "exit_graceful" ELSE "exit_forced"

\* e.Shutdown returns once every connection is idle: the error closing the
\* listener reported, if it did (the error is only observed here).
ShutdownReturnIdle ==
    /\ mainPc = "shutdown_wait"
    /\ InFlight = {}
    /\ shutdownErr' \in (IF listener = "closed" THEN {"nil", "listener_error"} ELSE {"nil"})
    /\ mainPc' = ShutdownOutcomePc(shutdownErr')
    /\ phaseLog' = LogPhase(phaseLog, mainPc')
    /\ UNCHANGED <<quit, ctxDone, listener, dbOpen, redisClient,
                   storeUp, shutdownFlag, middlewares, now, cleanupRuns, cleanupErr>>
    /\ UNCHANGED reqVars

\* e.Shutdown returns ctx.Err() when the context expires while a request is
\* still being served.
ShutdownReturnDeadline ==
    /\ mainPc = "shutdown_wait"
    /\ InFlight # {}
    /\ ctxDone
    /\ shutdownErr' = "deadline"
    /\ mainPc' = ShutdownOutcomePc(shutdownErr')
    /\ phaseLog' = LogPhase(phaseLog, mainPc')
    /\ UNCHANGED <<quit, ctxDone, listener, dbOpen, redisClient,
                   storeUp, shutdownFlag, middlewares, now, cleanupRuns, cleanupErr>>
    /\ UNCHANGED reqVars

\* ------------------------------------------------------------ environment

\* The store becomes unreachable or reachable again.
StoreFlip ==
    /\ ProcessAlive
    /\ storeUp' = ~storeUp
    /\ UNCHANGED <<shutdownFlag, now>>
    /\ UNCHANGED mainVars
    /\ UNCHANGED reqVars

\* TTL (spec): a key lives one window length from its creation, so at the
\* start of window w every key of a window before w - 1 has been dropped.
Expired(c, w) == [k \in Keys |-> IF k[2] < w - 1 THEN 0 ELSE c[k]]

\* Wall-clock time crosses a window boundary.
Tick ==
    /\ ProcessAlive
    /\ now + 1 \in Windows
    /\ now' = now + 1
    /\ counts' = Expired(counts, now')
    /\ UNCHANGED <<storeUp, shutdownFlag, inflight, arrived, tally, lateAdmits>>
    /\ UNCHANGED mainVars

\* ----------------------------------------------------------- rate limiter

\* The store call of the limiter succeeds (spec): the client's connection
\* is open and the store is reachable.
StoreCallOk(client, up) == client = "open" /\ up

IncrWithExpirySet(c) == 1

\* INCR-WITH-EXPIRY (spec): a new key is set to 1, an existing one is
\* incremented; one atomic store operation.
IncrWithExpiry(c) == c + 1

\* allowed = (count <= limit) (spec)
Allowed(count, limit) == count <= limit

LimiterOutcomeFailClosed(ok, count, limit) ==
    IF ok /\ Allowed(count, limit) THEN "counted_admit" ELSE "rejected"

\* Admit (spec): fail open when the store call fails, else decide by count.
LimiterOutcome(ok, count, limit) ==
    IF ~ok THEN "failopen"
    ELSE IF Allowed(count, limit) THEN "counted_admit" ELSE "rejected"

Rejections(k) == tally[k][<<"rejected", TRUE>>] + tally[k][<<"rejected", FALSE>>]

\* History: outcome o for key k is recorded with the store's reachability.
Record(k, o) ==
    /\ tally' = [tally EXCEPT ![k][<<o, storeUp>>] = @ + 1]
    /\ lateAdmits' = IF o # "rejected" /\ Rejections(k) > 0
                     THEN lateAdmits \cup {<<k, o>>}
                     ELSE lateAdmits

\* ----------------------------------------------------------------- requests

LowestFree == CHOOSE s \in Slots : inflight[s].id = "none"
                                   /\ \A t \in Slots : inflight[t].id = "none" => s <= t

\* The listener accepts a connection and a request of identity i starts.
Arrive(i) ==
    /\ ProcessAlive
    /\ listener = "open"
    /\ arrived < MaxReqs
    /\ \E s \in Slots : inflight[s].id = "none"
    /\ inflight' = [inflight EXCEPT ![LowestFree] = [id |-> i, pos |-> 0, token |-> FALSE]]
    /\ arrived' = arrived + 1
    /\ UNCHANGED <<storeUp, shutdownFlag, now, counts, tally, lateAdmits>>
    /\ UNCHANGED mainVars

Advance(s) == [inflight EXCEPT ![s].pos = @ + 1]

\* middleware.CorrelationID (spec): the request gets its correlation token.
CorrelationID(r) == [r EXCEPT !.token = TRUE]

\* The next registered middleware runs on the request in slot s.
Step(s) ==
    /\ ProcessAlive
    /\ inflight[s].id # "none"
    /\ inflight[s].pos < Len(middlewares)
    /\ LET r == inflight[s]
           name == middlewares[r.pos + 1]
           k == <<r.id, now>>
       IN  CASE name = "CorrelationID" ->
                  /\ inflight' = [inflight EXCEPT ![s] = [CorrelationID(r) EXCEPT !.pos = @ + 1]]
                  /\ UNCHANGED <<counts, tally, lateAdmits>>
             [] name = "DistributedRateLimiter" ->
                  LET ok == StoreCallOk(redisClient, storeUp)
                      c == IF ok THEN IncrWithExpiry(counts[k]) ELSE counts[k]
                      o == LimiterOutcome(ok, c, RateLimitConfigLimit)
                  IN  /\ counts' = [counts EXCEPT ![k] = c]
                      /\ Record(k, o)
                      /\ inflight' = IF o = "rejected"
                                     THEN [inflight EXCEPT ![s] = NoReq]
                                     ELSE Advance(s)
             [] name = "Compression"
                /\ \A i \in 1..Len(middlewares) : middlewares[i] # "DistributedRateLimiter" ->
                  /\ inflight' = Advance(s)
                  /\ Record(k, "unlimited")
                  /\ UNCHANGED counts
             [] OTHER ->
                  /\ inflight' = Advance(s)
                  /\ UNCHANGED <<counts, tally, lateAdmits>>
    /\ UNCHANGED <<storeUp, shutdownFlag, now, arrived>>
    /\ UNCHANGED mainVars

\* The route handler runs and the response is written: the connection is idle.
Handle(s) ==
    /\ ProcessAlive
    /\ inflight[s].id # "none"
    /\ inflight[s].pos = Len(middlewares)
    /\ inflight' = [inflight EXCEPT ![s] = NoReq]
    /\ UNCHANGED <<storeUp, shutdownFlag, now, arrived, counts, tally,
                   lateAdmits>>
    /\ UNCHANGED mainVars

\* ------------------------------------------------------------------ probes

\* main.go continues without Redis: the store is an optional dependency.
StoreOptional == TRUE

\* Readiness (spec): the required dependencies are healthy and the Shutdown
\* State flag is neither draining nor stopped.
Readiness ==
    /\ dbOpen
    /\ (StoreCallOk(redisClient, storeUp) \/ StoreOptional)
    /\ shutdownFlag \notin {"draining", "stopped"}

\* ------------------------------------------------------------ specification

Next ==
    \/ Startup
    \/ ServerStart
    \/ ServerFailed
    \/ Signal
    \/ ReceiveQuit
    \/ DeadlineExpire
    \/ Cleanup
    \/ ShutdownBegin
    \/ ShutdownReturnIdle
    \/ ShutdownReturnDeadline
    \/ StoreFlip
    \/ Tick
    \/ \E i \in Identities : Arrive(i)
    \/ \E s \in Slots : Step(s)
    \/ \E s \in Slots : Handle(s)

Spec == Init /\ [][Next]_vars

TypeOK ==
    /\ mainPc \in MainPcs
    /\ quit \in 0..QuitCapacity
    /\ listener \in {"none", "open", "closed"}
    /\ shutdownErr \in {"none", "nil", "listener_error", "deadline"}
    /\ redisClient \in {"nil", "open", "closed"}
    /\ arrived \in 0..MaxReqs
    /\ now \in Windows

\* ------------------------------------------------------------- properties

Min(a, b) == IF a <= b THEN a ELSE b

Tally(k, o) == tally[k][<<o, TRUE>>] + tally[k][<<o, FALSE>>]

\* Requests of key k let through, and all requests of key k decided so far.
Admitted(k) == Tally(k, "counted_admit") + Tally(k, "failopen") + Tally(k, "unlimited")
Requests(k) == Admitted(k) + Tally(k, "rejected")

\* Every request of key k was decided while the store was reachable.
StoreReachableThroughout(k) == \A o \in Outcomes : tally[k][<<o, FALSE>>] = 0

Ran(r, name) == \E i \in 1..r.pos : middlewares[i] = name

\* The order the claim lists: correlation, structured logging, security
\* headers, CORS, rate limiter, compression (0: not in the list).
Rank(name) ==
    CASE name = "CorrelationID" -> 1
      [] name = "StructuredLogger" -> 2
      [] name = "Security" -> 3
      [] name = "CORS" -> 4
      [] name = "DistributedRateLimiter" -> 5
      [] name = "Compression" -> 6
      [] OTHER -> 0

InListedOrder(r) ==
    \A j \in 2..r.pos : \A i \in 1..(j - 1) :
        (Rank(middlewares[i]) > 0 /\ Rank(middlewares[j]) > 0)
            => Rank(middlewares[i]) < Rank(middlewares[j])

\* C1: a cleanup hook has run only when the listener no longer accepts
\* connections and the drain is over (no request in flight) or has hit the
\* deadline.
C1_CleanupOnlyAfterDrain ==
    cleanupRuns > 0 => (listener # "open" /\ (InFlight = {} \/ ctxDone))

\* C2: when the drain hits the deadline (e.Shutdown returns the context's
\* error because a request is still in flight), the process still ends in
\* the stopped state.
C2_DeadlineReachesStopped ==
    shutdownErr = "deadline" => ShutdownState(mainPc) = "stopped"

\* C3: however many signals are delivered, services.Cleanup runs at most
\* once, exactly once when the process has stopped, and the Shutdown State
\* only moves forward along running -> draining -> stopped (a forced exit
\* ends the sequence early, it never restarts it).
C3_ShutdownRunsOnce ==
    /\ cleanupRuns <= 1
    /\ phaseLog \in {<<"running">>, <<"running", "draining">>,
                     <<"running", "draining", "stopped">>,
                     <<"running", "killed">>, <<"running", "draining", "killed">>}
    /\ (cleanupRuns = 1 => phaseLog[Len(phaseLog)] # "running")
    /\ (ShutdownState(mainPc) = "stopped" => cleanupRuns = 1)

\* A further signal arrived after the first one was received (it is still
\* buffered) and the process stopped after one cleanup.
C3_Witness ==
    mainPc = "exit_graceful" /\ quit = 1 /\ cleanupRuns = 1

\* C4: once the Shutdown State has left running, the readiness probe
\* answers false.
C4_NotReadyOnceDraining ==
    (ProcessAlive /\ ShutdownState(mainPc) # "running") => ~Readiness

C6_FailOpen ==
    \A k \in Keys : tally[k][<<"rejected", FALSE>>] = 0

\* A request passed the limiter while the store was down although the key's
\* count had already used up the quota.
C6_Witness ==
    \E k \in Keys : tally[k][<<"failopen", FALSE>>] > 0 /\ counts[k] >= RateLimitReqs

\* C7: the count the store holds for a key equals the number of requests
\* whose increment reached the store (no update is lost), and at most L of
\* them are admitted.
C7_NoLostUpdates ==
    \A k \in Keys :
        k[2] >= now - 1 =>
            /\ counts[k] = Tally(k, "counted_admit") + Tally(k, "rejected")
            /\ Tally(k, "counted_admit") <= RateLimitReqs

\* Two requests of one identity overlapped in one window: the first is still
\* being served after the limiter, the second was counted and rejected.
C7_Witness ==
    \E s \in Slots :
        /\ inflight[s].id # "none"
        /\ Ran(inflight[s], "DistributedRateLimiter")
        /\ counts[<<inflight[s].id, now>>] = 2
        /\ Tally(<<inflight[s].id, now>>, "rejected") = 1

\* C8 as stated: the correlation token is assigned before any other
\* middleware executes, and the listed middleware run in the listed order.
C8_TokenBeforeAnyMiddleware ==
    \A s \in Slots :
        LET r == inflight[s] IN
        /\ (\E i \in 1..r.pos : middlewares[i] # "CorrelationID") => r.token
        /\ InListedOrder(r)

\* C8 as amended: only the panic-recovery middleware runs before the token
\* is assigned; every other middleware, the rate limiter included, runs on
\* a request that has its token, and the listed middleware run in the
\* listed order.
C8_TokenBeforeAllButRecover ==
    \A s \in Slots :
        LET r == inflight[s] IN
        /\ (\E i \in 1..r.pos : middlewares[i] \notin {"Recover", "CorrelationID"})
              => r.token
        /\ (Ran(r, "DistributedRateLimiter") => r.token)
        /\ InListedOrder(r)

\* A request has passed the whole chain, rate limiter included.
C8_Witness ==
    \E s \in Slots :
        /\ inflight[s].id # "none"
        /\ inflight[s].pos = Len(middlewares)
        /\ Ran(inflight[s], "DistributedRateLimiter")
        /\ inflight[s].token

\* C9: the process is forced to exit during shutdown only when the listener
\* itself failed to stop.
C9_OnlyListenerFailureIsFatal ==
    mainPc = "exit_forced" => shutdownErr = "listener_error"

\* C10: after startup the rate limiter is registered exactly when the store
\* client was initialized; without a client nothing is ever counted,
\* rejected or decided by the limiter, whatever the store does later.
C10_LimiterDecidedAtStartup ==
    mainPc # "init" =>
        /\ (redisClient = "nil") =
              (\A i \in 1..Len(middlewares) : middlewares[i] # "DistributedRateLimiter")
        /\ redisClient = "nil" =>
              \A k \in Keys :
                  /\ counts[k] = 0
                  /\ Tally(k, "counted_admit") = 0
                  /\ Tally(k, "rejected") = 0
                  /\ Tally(k, "failopen") = 0

\* Started without a client, the store is reachable now, and more requests
\* than the quota were let through in one window.
C10_Witness ==
    /\ redisClient = "nil"
    /\ storeUp
    /\ \E k \in Keys : tally[k][<<"unlimited", TRUE>>] > RateLimitReqs

====
